---- MODULE Spec2Model ----
(***************************************************************************)
(* Word Ladder II visualizer (src/src/App.tsx): the neighbor index, the    *)
(* layered BFS that records one frame per level, and the backtracking      *)
(* that enumerates the shortest paths from the last frame's parent map.    *)
(*                                                                         *)
(* Strings are sequences of UTF-16 code units (97 = "a", 65 = "A",         *)
(* 42 = "*", 45 = "-", 62 = ">").  A JavaScript Set or array is the        *)
(* sequence of its elements in insertion order.  Objects that the code     *)
(* holds by reference (the parents record, the parent Sets, the snapshot   *)
(* records) live in `heap` and are named by their index there.             *)
(***************************************************************************)
EXTENDS Integers, Sequences, FiniteSets, TLC

VARIABLES
    beginWord,      \* useState, App.tsx:8
    endWord,        \* useState, App.tsx:9
    wordListText,   \* useState, App.tsx:10: the tokens the split of line 34 yields
    pc,             \* position of the render's computation
    visited,        \* App.tsx:92
    parents,        \* App.tsx:93: reference to the live parents record
    frontier,       \* App.tsx:94
    level,          \* App.tsx:95
    found,          \* App.tsx:96
    out,            \* App.tsx:98
    heap,           \* the records and Sets allocated so far
    frames,         \* App.tsx:87: the memo's value
    finalParents,   \* App.tsx:144: reference to a record
    allPaths,       \* App.tsx:149: the memo's value
    step,           \* useState, App.tsx:186
    isPlaying,      \* useState, App.tsx:24
    timerRef,       \* App.tsx:26: the pending timeout, with the frames.length it closed over
    resetDeps,      \* the dependencies the effect of App.tsx:188 last ran with
    timerDeps,      \* the dependencies the effect of App.tsx:194 last ran with
    columns         \* App.tsx:215: the memo's value

\* The playback state, which the BFS and the backtracking never touch
playback == <<step, isPlaying, timerRef, resetDeps, timerDeps, columns>>

vars == <<beginWord, endWord, wordListText, pc, visited, parents, frontier,
          level, found, out, heap, frames, finalParents, allPaths, playback>>

----------------------------------------------------------------------------
(* Bounds and input sets *)

MaxWords == 3

\* "aa", "ab", "ba", "ac", "bc", "bb", "Ba", "abc"
Pool == { <<97,97>>, <<97,98>>, <<98,97>>, <<97,99>>, <<98,99>>, <<98,98>>,
          <<66,97>>, <<97,98,99>> }

constructor == <<99,111,110,115,116,114,117,99,116,111,114>>
constructos == <<99,111,110,115,116,114,117,99,116,111,115>>
xonstructos == <<120,111,110,115,116,114,117,99,116,111,115>>

\* "aa", "constructos", "xonstructos": begin and end word are stored trimmed
\* and lowercased (App.tsx:331, 339), the word list as typed (App.tsx:348)
BeginWords == { <<97,97>>, constructos, xonstructos }
\* "bb", "aa", "constructor"
EndWords == { <<98,98>>, <<97,97>>, constructor }

TokenLists == UNION { [1..n -> Pool] : n \in 0..MaxWords }

----------------------------------------------------------------------------
(* JavaScript built-ins the code uses *)

Range(s) == { s[i] : i \in 1..Len(s) }

\* String.prototype.toLowerCase on one code unit
LowerUnit(c) == IF c >= 65 /\ c <= 90 THEN c + 32 ELSE c

toLowerCase(w) == [i \in 1..Len(w) |-> LowerUnit(w[i])]

\* String.prototype.slice(from, to), 0-based, end exclusive
slice(w, from, to) ==
    LET f == IF from > Len(w) THEN Len(w) ELSE from
        t == IF to > Len(w) THEN Len(w) ELSE to
    IN  IF f >= t THEN <<>> ELSE SubSeq(w, f + 1, t)

\* Set.prototype.has / Array.prototype.includes
Has(s, x) == \E i \in 1..Len(s) : s[i] = x

\* Set.prototype.add: insertion order kept, no duplicates
SetAdd(s, x) == IF Has(s, x) THEN s ELSE Append(s, x)

RECURSIVE NewSet(_)
\* new Set(iterable)
NewSet(arr) ==
    IF arr = <<>> THEN <<>>
    ELSE SetAdd(NewSet(SubSeq(arr, 1, Len(arr) - 1)), arr[Len(arr)])

\* Mutant of Reverse: the reverse() call left out
ReverseForgotten(s) == s

\* Array.prototype.reverse
Reverse(s) == [i \in 1..Len(s) |-> s[Len(s) + 1 - i]]

\* A property read that finds no own key and nothing on Object.prototype
Undefined == 0
\* A property read that finds the key on Object.prototype (a function)
Inherited == -1

\* The all-lowercase property names every plain object inherits
ObjectPrototypeKeys == { constructor }

\* rec[key] on a plain object: rec is the sequence of <<key, value>> own entries
Get(rec, key) ==
    IF \E i \in 1..Len(rec) : rec[i][1] = key
    THEN rec[CHOOSE i \in 1..Len(rec) : rec[i][1] = key][2]
    ELSE IF key \in ObjectPrototypeKeys THEN Inherited ELSE Undefined

----------------------------------------------------------------------------
(* words, wordLen, patternBuckets, getNeighbors *)

words(text, endW) ==
    LET set == NewSet([i \in 1..Len(text) |-> toLowerCase(text[i])])
    IN  IF ~Has(set, toLowerCase(endW)) THEN SetAdd(set, toLowerCase(endW)) ELSE set

wordLen(beginW) == Len(beginW)

\* w.slice(0, i) + "*" + w.slice(i + 1)
PatternKey(w, i) == slice(w, 0, i) \o <<42>> \o slice(w, i + 1, Len(w))

\* (buckets[key] ||= []).push(w)
BucketPush(b, key, w) ==
    IF key \in DOMAIN b THEN [b EXCEPT ![key] = Append(@, w)]
    ELSE b @@ (key :> <<w>>)

RECURSIVE AddPatterns(_, _, _, _)
AddPatterns(b, w, i, L) ==
    IF i >= L THEN b
    ELSE AddPatterns(BucketPush(b, PatternKey(w, i), w), w, i + 1, L)

RECURSIVE BucketWords(_, _, _, _)
BucketWords(b, ws, k, L) ==
    IF k > Len(ws) THEN b
    ELSE BucketWords(IF Len(ws[k]) # L THEN b ELSE AddPatterns(b, ws[k], 0, L),
                     ws, k + 1, L)

patternBuckets(ws, beginW) ==
    LET L  == wordLen(beginW)
        b1 == BucketWords(<<>>, ws, 1, L)
    IN  IF Len(beginW) = L THEN AddPatterns(b1, toLowerCase(beginW), 0, L) ELSE b1

RECURSIVE AddBucketPushing(_, _, _, _)
\* Mutant of AddBucket: res is an array that is pushed to, not a Set
AddBucketPushing(res, arr, k, w) ==
    IF k > Len(arr) THEN res
    ELSE AddBucketPushing(IF arr[k] # w /\ Len(arr[k]) = Len(w)
                          THEN Append(res, arr[k]) ELSE res,
                          arr, k + 1, w)

RECURSIVE AddBucket(_, _, _, _)
\* for (const v of arr) if (v !== w && v.length === w.length) res.add(v)
AddBucket(res, arr, k, w) ==
    IF k > Len(arr) THEN res
    ELSE AddBucket(IF arr[k] # w /\ Len(arr[k]) = Len(w) THEN SetAdd(res, arr[k]) ELSE res,
                   arr, k + 1, w)

RECURSIVE NeighborsFrom(_, _, _, _, _)
NeighborsFrom(res, w, i, L, buckets) ==
    IF i >= L THEN res
    ELSE LET key == PatternKey(w, i)
             arr == IF key \in DOMAIN buckets THEN buckets[key] ELSE <<>>
         IN  NeighborsFrom(AddBucket(res, arr, 1, w), w, i + 1, L, buckets)

getNeighbors(w, L, buckets) == NeighborsFrom(<<>>, w, 0, L, buckets)

----------------------------------------------------------------------------
(* frames: the layered BFS *)

\* Mutant of InitialFrontier: the loop starts from an empty frontier
InitialFrontierEmpty(src) == <<>>

\* let frontier = [src]
InitialFrontier(src) == <<src>>

\* Mutant of Discover: a word is marked as seen when first discovered, so a
\* second frontier node of the same level does not become its parent
DiscoverFirstParentOnly(ls, node, nei, vis, par) ==
    IF ls.thrown \/ Has(vis, nei) \/ Has(ls.next, nei) THEN ls
    ELSE LET h0  == ls.heap
             h1  == IF Get(h0.records[par], nei) = Undefined
                    THEN [records |-> [h0.records EXCEPT
                                         ![par] = Append(@, <<nei, Len(h0.sets) + 1>>)],
                          sets    |-> Append(h0.sets, <<>>)]
                    ELSE h0
             ref == Get(h1.records[par], nei)
         IN  IF ref = Inherited
             THEN [ls EXCEPT !.thrown = TRUE]
             ELSE [heap   |-> [h1 EXCEPT !.sets[ref] = SetAdd(@, node)],
                   next   |-> SetAdd(ls.next, nei),
                   thrown |-> FALSE]

\* Mutant of Discover: the visited check left out
DiscoverIgnoringVisited(ls, node, nei, vis, par) ==
    IF ls.thrown THEN ls
    ELSE LET h0  == ls.heap
             h1  == IF Get(h0.records[par], nei) = Undefined
                    THEN [records |-> [h0.records EXCEPT
                                         ![par] = Append(@, <<nei, Len(h0.sets) + 1>>)],
                          sets    |-> Append(h0.sets, <<>>)]
                    ELSE h0
             ref == Get(h1.records[par], nei)
         IN  IF ref = Inherited
             THEN [ls EXCEPT !.thrown = TRUE]
             ELSE [heap   |-> [h1 EXCEPT !.sets[ref] = SetAdd(@, node)],
                   next   |-> SetAdd(ls.next, nei),
                   thrown |-> FALSE]

\* The body of "if (!visited.has(nei))": ls = [heap, next, thrown]
Discover(ls, node, nei, vis, par) ==
    IF ls.thrown \/ Has(vis, nei) THEN ls
    ELSE LET h0  == ls.heap
             \* if (!parents[nei]) parents[nei] = new Set()
             h1  == IF Get(h0.records[par], nei) = Undefined
                    THEN [records |-> [h0.records EXCEPT
                                         ![par] = Append(@, <<nei, Len(h0.sets) + 1>>)],
                          sets    |-> Append(h0.sets, <<>>)]
                    ELSE h0
             ref == Get(h1.records[par], nei)
         IN  IF ref = Inherited
             THEN \* parents[nei].add is not a function: TypeError
                  [ls EXCEPT !.thrown = TRUE]
             ELSE [heap   |-> [h1 EXCEPT !.sets[ref] = SetAdd(@, node)],
                   next   |-> SetAdd(ls.next, nei),
                   thrown |-> FALSE]

RECURSIVE ExpandNode(_, _, _, _, _, _)
\* for (const nei of getNeighbors(node))
ExpandNode(ls, node, neis, k, vis, par) ==
    IF k > Len(neis) THEN ls
    ELSE ExpandNode(Discover(ls, node, neis[k], vis, par), node, neis, k + 1, vis, par)

RECURSIVE ExpandFrontier(_, _, _, _, _, _, _)
\* for (const node of frontier)
ExpandFrontier(ls, fr, k, vis, par, L, buckets) ==
    IF k > Len(fr) THEN ls
    ELSE ExpandFrontier(ExpandNode(ls, fr[k], getNeighbors(fr[k], L, buckets), 1, vis, par),
                        fr, k + 1, vis, par, L, buckets)

\* Mutant of MarkVisited: the discovered words are never marked visited
MarkVisitedNever(vis, nextArr) == vis

RECURSIVE MarkVisited(_, _)
\* for (const n of nextArr) visited.add(n)
MarkVisited(vis, nextArr) ==
    IF nextArr = <<>> THEN vis
    ELSE MarkVisited(SetAdd(vis, Head(nextArr)), Tail(nextArr))

\* Mutant of SnapshotParents: the frame keeps the live record, no copy
SnapshotAliased(h, par) == [heap |-> h, ref |-> par]

\* Object.fromEntries(Object.entries(parents).map(([k, v]) => [k, new Set(Array.from(v))]))
\* a new record whose values are new Sets; yields the heap and the new reference
SnapshotParents(h, par) ==
    LET live == h.records[par]
        n    == Len(h.sets)
    IN  [heap |-> [records |-> Append(h.records,
                                      [k \in 1..Len(live) |-> <<live[k][1], n + k>>]),
                   sets    |-> h.sets \o [k \in 1..Len(live) |-> NewSet(h.sets[live[k][2]])]],
         ref  |-> Len(h.records) + 1]

\* The state the loop starts from (lines 92-99), given the heap so far
LoopInit(h, src) ==
    [visited  |-> SetAdd(<<>>, src),
     parents  |-> Len(h.records) + 1,
     frontier |-> InitialFrontier(src),
     level    |-> 0,
     found    |-> FALSE,
     out      |-> <<>>,
     heap     |-> [h EXCEPT !.records = Append(@, <<>>)],
     thrown   |-> FALSE]

\* while (frontier.length && !found)
LoopCond(s) == Len(s.frontier) # 0 /\ ~s.found

\* Mutant of Iterate: found is not set and the loop is not left when the end
\* word is discovered
IterateWithoutBreak(s, tgt, L, buckets) ==
    LET ls      == ExpandFrontier([heap |-> s.heap, next |-> <<>>, thrown |-> FALSE],
                                  s.frontier, 1, s.visited, s.parents, L, buckets)
        nextArr == ls.next
        vis     == MarkVisited(s.visited, nextArr)
        snap    == SnapshotParents(ls.heap, s.parents)
        frame   == [level           |-> s.level,
                    frontier        |-> s.frontier,
                    nextFrontier    |-> nextArr,
                    visitedSnapshot |-> vis,
                    parentsSnapshot |-> snap.ref,
                    found           |-> Has(nextArr, tgt)]
    IN  IF ls.thrown
        THEN [s EXCEPT !.heap = ls.heap, !.thrown = TRUE]
        ELSE [s EXCEPT !.visited = vis, !.heap = snap.heap,
                       !.out = Append(@, frame),
                       !.frontier = nextArr, !.level = @ + 1]

\* One iteration of the while loop (lines 102-137)
Iterate(s, tgt, L, buckets) ==
    LET ls      == ExpandFrontier([heap |-> s.heap, next |-> <<>>, thrown |-> FALSE],
                                  s.frontier, 1, s.visited, s.parents, L, buckets)
        nextArr == ls.next
        vis     == MarkVisited(s.visited, nextArr)
        snap    == SnapshotParents(ls.heap, s.parents)
        frame   == [level           |-> s.level,
                    frontier        |-> s.frontier,
                    nextFrontier    |-> nextArr,
                    visitedSnapshot |-> vis,
                    parentsSnapshot |-> snap.ref,
                    found           |-> Has(nextArr, tgt)]
    IN  IF ls.thrown
        THEN [s EXCEPT !.heap = ls.heap, !.thrown = TRUE]
        ELSE IF Has(nextArr, tgt)
        THEN [s EXCEPT !.visited = vis, !.heap = snap.heap,
                       !.out = Append(@, frame), !.found = TRUE]
        ELSE [s EXCEPT !.visited = vis, !.heap = snap.heap,
                       !.out = Append(@, frame),
                       !.frontier = nextArr, !.level = @ + 1]

----------------------------------------------------------------------------
(* finalParents and allPaths *)

\* const path: string[] = [tgt]
InitialPath(tgt) == <<tgt>>

RECURSIVE dfsPushingCurrent(_, _, _, _)
RECURSIVE dfsPushingCurrentFor(_, _, _, _, _, _, _)

\* Mutant of dfs: path.push(w) in place of path.push(p)
dfsPushingCurrent(w, path, visiting, cx) ==
    IF w = cx.src THEN [res |-> <<Reverse(path)>>, thrown |-> FALSE]
    ELSE LET ps == Get(cx.rec, w)
         IN  IF ps = Undefined THEN [res |-> <<>>, thrown |-> FALSE]
             ELSE IF ps = Inherited THEN [res |-> <<>>, thrown |-> TRUE]
             ELSE dfsPushingCurrentFor(cx.sets[ps], 1, w, path, visiting, cx, <<>>)

dfsPushingCurrentFor(ps, k, w, path, visiting, cx, acc) ==
    IF k > Len(ps) THEN [res |-> acc, thrown |-> FALSE]
    ELSE IF ps[k] \in visiting
    THEN dfsPushingCurrentFor(ps, k + 1, w, path, visiting, cx, acc)
    ELSE LET r == dfsPushingCurrent(ps[k], Append(path, w), visiting \cup {ps[k]}, cx)
         IN  IF r.thrown THEN [res |-> acc \o r.res, thrown |-> TRUE]
             ELSE dfsPushingCurrentFor(ps, k + 1, w, path, visiting, cx, acc \o r.res)

RECURSIVE dfs(_, _, _, _)
RECURSIVE dfsFor(_, _, _, _, _, _)

\* cx = [src, rec, sets]; yields the paths pushed to res, in order, and whether
\* a TypeError was thrown
dfs(w, path, visiting, cx) ==
    IF w = cx.src THEN [res |-> <<Reverse(path)>>, thrown |-> FALSE]
    ELSE LET ps == Get(cx.rec, w)
         IN  IF ps = Undefined THEN [res |-> <<>>, thrown |-> FALSE]
             ELSE IF ps = Inherited
             THEN \* for (const p of ps): ps is not iterable
                  [res |-> <<>>, thrown |-> TRUE]
             ELSE dfsFor(cx.sets[ps], 1, path, visiting, cx, <<>>)

\* for (const p of ps)
dfsFor(ps, k, path, visiting, cx, acc) ==
    IF k > Len(ps) THEN [res |-> acc, thrown |-> FALSE]
    ELSE IF ps[k] \in visiting THEN dfsFor(ps, k + 1, path, visiting, cx, acc)
    ELSE LET r == dfs(ps[k], Append(path, ps[k]), visiting \cup {ps[k]}, cx)
         IN  IF r.thrown THEN [res |-> acc \o r.res, thrown |-> TRUE]
             ELSE dfsFor(ps, k + 1, path, visiting, cx, acc \o r.res)

RECURSIVE join(_, _)
\* Array.prototype.join
join(path, sep) ==
    IF path = <<>> THEN <<>>
    ELSE IF Len(path) = 1 THEN path[1]
    ELSE path[1] \o sep \o join(Tail(path), sep)

\* Collation weight of a code unit: punctuation and symbols sort before letters
CollationWeight(c) == IF c = 45 THEN 1 ELSE IF c = 62 THEN 2 ELSE c

RECURSIVE localeCompare(_, _)
localeCompare(x, y) ==
    IF x = <<>> /\ y = <<>> THEN 0
    ELSE IF x = <<>> THEN -1
    ELSE IF y = <<>> THEN 1
    ELSE IF CollationWeight(Head(x)) < CollationWeight(Head(y)) THEN -1
    ELSE IF CollationWeight(Head(x)) > CollationWeight(Head(y)) THEN 1
    ELSE localeCompare(Tail(x), Tail(y))

\* (a, b) => a.join("->").localeCompare(b.join("->"))
ComparePaths(x, y) == localeCompare(join(x, <<45, 62>>), join(y, <<45, 62>>))

RECURSIVE InsertSorted(_, _)
InsertSorted(sorted, x) ==
    IF sorted = <<>> THEN <<x>>
    ELSE IF ComparePaths(sorted[Len(sorted)], x) <= 0 THEN Append(sorted, x)
    ELSE Append(InsertSorted(SubSeq(sorted, 1, Len(sorted) - 1), x), sorted[Len(sorted)])

RECURSIVE SortFrom(_, _, _)
SortFrom(acc, res, k) ==
    IF k > Len(res) THEN acc ELSE SortFrom(InsertSorted(acc, res[k]), res, k + 1)

\* Mutant of SortPaths: the sort left out
SortPathsOmitted(res) == res

\* res.sort(...): stable
SortPaths(res) == SortFrom(<<>>, res, 1)

\* frames.length ? frames[frames.length - 1].parentsSnapshot : {}
\* yields the heap (a new empty record when there is no frame) and the reference
FinalParentsOf(fs, h) ==
    IF Len(fs) = 0
    THEN [heap |-> [h EXCEPT !.records = Append(@, <<>>)], ref |-> Len(h.records) + 1]
    ELSE [heap |-> h, ref |-> fs[Len(fs)].parentsSnapshot]

\* The allPaths memo (lines 149-183): the list, or a thrown TypeError
AllPathsOf(beginW, endW, fp, h) ==
    LET src == toLowerCase(beginW)
        tgt == toLowerCase(endW)
        rec == h.records[fp]
    IN  IF Get(rec, tgt) = Undefined THEN [res |-> <<>>, thrown |-> FALSE]
        ELSE LET r == dfs(tgt, InitialPath(tgt), {tgt},
                          [src |-> src, rec |-> rec, sets |-> h.sets])
             IN  IF r.thrown THEN [res |-> <<>>, thrown |-> TRUE]
                 ELSE [res |-> SortPaths(r.res), thrown |-> FALSE]

----------------------------------------------------------------------------
(* The render's computation, step by step *)

EmptyHeap == [records |-> <<>>, sets |-> <<>>]

Src == toLowerCase(beginWord)
Tgt == toLowerCase(endWord)
Buckets == patternBuckets(words(wordListText, endWord), beginWord)

LoopState ==
    [visited |-> visited, parents |-> parents, frontier |-> frontier, level |-> level,
     found |-> found, out |-> out, heap |-> heap, thrown |-> FALSE]

Init ==
    /\ beginWord \in BeginWords
    /\ endWord \in EndWords
    /\ wordListText \in TokenLists
    /\ pc = "frames"
    /\ visited = <<>>
    /\ parents = 0
    /\ frontier = <<>>
    /\ level = 0
    /\ found = FALSE
    /\ out = <<>>
    /\ heap = EmptyHeap
    /\ frames = <<>>
    /\ finalParents = 0
    /\ allPaths = <<>>
    /\ step = 0
    /\ isPlaying = FALSE
    /\ timerRef = <<>>
    /\ resetDeps = <<>>
    /\ timerDeps = <<>>
    /\ columns = <<>>

\* if (src.length !== tgt.length) return []
FramesLengthMismatch ==
    /\ pc = "frames"
    /\ Len(Src) # Len(Tgt)
    /\ frames' = <<>>
    /\ pc' = "finalParents"
    /\ UNCHANGED <<beginWord, endWord, wordListText, visited, parents, frontier,
                   level, found, out, heap, finalParents, allPaths, playback>>

\* lines 92-99
FramesStart ==
    /\ pc = "frames"
    /\ Len(Src) = Len(Tgt)
    /\ LET s == LoopInit(heap, Src)
       IN  /\ visited' = s.visited
           /\ parents' = s.parents
           /\ frontier' = s.frontier
           /\ level' = s.level
           /\ found' = s.found
           /\ out' = s.out
           /\ heap' = s.heap
    /\ pc' = "while"
    /\ UNCHANGED <<beginWord, endWord, wordListText, frames, finalParents, allPaths, playback>>

\* One iteration of the while loop; a TypeError leaves the render
ExpandLevel ==
    /\ pc = "while"
    /\ LoopCond(LoopState)
    /\ LET s == Iterate(LoopState, Tgt, wordLen(beginWord), Buckets)
       IN  /\ visited' = s.visited
           /\ frontier' = s.frontier
           /\ level' = s.level
           /\ found' = s.found
           /\ out' = s.out
           /\ heap' = s.heap
           /\ pc' = IF s.thrown THEN "thrown" ELSE "while"
    /\ UNCHANGED <<beginWord, endWord, wordListText, parents, frames, finalParents,
                   allPaths, playback>>

\* return out
FramesReturn ==
    /\ pc = "while"
    /\ ~LoopCond(LoopState)
    /\ frames' = out
    /\ pc' = "finalParents"
    /\ UNCHANGED <<beginWord, endWord, wordListText, visited, parents, frontier,
                   level, found, out, heap, finalParents, allPaths, playback>>

\* lines 144-147
FinalParents ==
    /\ pc = "finalParents"
    /\ LET r == FinalParentsOf(frames, heap)
       IN  /\ heap' = r.heap
           /\ finalParents' = r.ref
    /\ pc' = "allPaths"
    /\ UNCHANGED <<beginWord, endWord, wordListText, visited, parents, frontier,
                   level, found, out, frames, allPaths, playback>>

\* lines 149-183
AllPaths ==
    /\ pc = "allPaths"
    /\ LET r == AllPathsOf(beginWord, endWord, finalParents, heap)
       IN  /\ allPaths' = r.res
           /\ pc' = IF r.thrown THEN "thrown" ELSE "done"
    /\ UNCHANGED <<beginWord, endWord, wordListText, visited, parents, frontier,
                   level, found, out, heap, frames, finalParents, playback>>

----------------------------------------------------------------------------
(* The same computation as one function of the inputs: a second run *)

RECURSIVE WhileLoop(_, _, _, _)
WhileLoop(s, tgt, L, buckets) ==
    IF s.thrown \/ ~LoopCond(s) THEN s
    ELSE WhileLoop(Iterate(s, tgt, L, buckets), tgt, L, buckets)

\* The frames memo: [out, heap, thrown]
RunFrames(beginW, endW, text) ==
    LET src == toLowerCase(beginW)
        tgt == toLowerCase(endW)
    IN  IF Len(src) # Len(tgt)
        THEN [out |-> <<>>, heap |-> EmptyHeap, thrown |-> FALSE]
        ELSE WhileLoop(LoopInit(EmptyHeap, src), tgt, wordLen(beginW),
                       patternBuckets(words(text, endW), beginW))

\* The render's outcome: the path list, or a thrown TypeError
RunAllPaths(beginW, endW, text) ==
    LET s == RunFrames(beginW, endW, text)
    IN  IF s.thrown THEN [res |-> <<>>, thrown |-> TRUE]
        ELSE LET fp == FinalParentsOf(s.out, s.heap)
             IN  AllPathsOf(beginW, endW, fp.ref, fp.heap)

Next ==
    \/ FramesLengthMismatch
    \/ FramesStart
    \/ ExpandLevel
    \/ FramesReturn
    \/ FinalParents
    \/ AllPaths

Spec == Init /\ [][Next]_vars

----------------------------------------------------------------------------
(* What the claims speak of, stated on sets, independently of the code *)

Terminated == pc \in {"done", "thrown"}

\* The frames memo has returned its value
FramesReturned == pc \in {"finalParents", "allPaths", "done"} \/ (pc = "thrown" /\ finalParents # 0)

\* The dictionary (end word added), lowercased and filtered to the begin word's length
Dictionary == { w \in Range(words(wordListText, endWord)) : Len(w) = Len(beginWord) }

\* u and v have one length and differ in exactly one position
OneLetterApart(u, v) ==
    /\ Len(u) = Len(v)
    /\ Cardinality({ i \in 1..Len(u) : u[i] # v[i] }) = 1

RECURSIVE LayersFrom(_, _)
\* The words at distance 0, 1, 2, ... from the begin word
LayersFrom(seen, cur) ==
    IF cur = {} THEN <<>>
    ELSE LET nxt == { v \in Dictionary \ seen : \E u \in cur : OneLetterApart(u, v) }
         IN  <<cur>> \o LayersFrom(seen \cup nxt, nxt)

Layers == LayersFrom({Src}, {Src})

Reachable(w) == \E k \in 1..Len(Layers) : w \in Layers[k]

RECURSIVE PathsTo(_, _, _)
\* Every shortest sequence from the begin word to w, a word of layers[k]
PathsTo(w, k, layers) ==
    IF k = 1 THEN { <<w>> }
    ELSE UNION { { Append(q, w) : q \in PathsTo(u, k - 1, layers) } :
                 u \in { u \in layers[k - 1] : OneLetterApart(u, w) } }

ShortestPaths ==
    IF Reachable(Tgt)
    THEN PathsTo(Tgt, CHOOSE k \in 1..Len(Layers) : Tgt \in Layers[k], Layers)
    ELSE {}

\* The parent map a record reference stands for: key -> set of parents
ParentMap(h, ref) ==
    [k \in 1..Len(h.records[ref]) |->
        <<h.records[ref][k][1], Range(h.sets[h.records[ref][k][2]])>>]

ParentsOfIn(h, ref, w) ==
    UNION { ParentMap(h, ref)[k][2] : k \in { k \in 1..Len(h.records[ref]) :
                                              h.records[ref][k][1] = w } }

KeysOf(h, ref) == { h.records[ref][k][1] : k \in 1..Len(h.records[ref]) }

SetRefsOf(h, ref) == { h.records[ref][k][2] : k \in 1..Len(h.records[ref]) }

----------------------------------------------------------------------------
(* C1 *)

\* C1 (completeness): when the end word differs from the begin word, has its
\* length and is reachable from it by single-letter steps through dictionary
\* words, the render ends with a path list that holds every shortest sequence.
C1_Completeness ==
    (Terminated /\ Len(Src) = Len(Tgt) /\ Src # Tgt /\ Reachable(Tgt))
        => (pc = "done" /\ ShortestPaths \subseteq Range(allPaths))

\* What remains of C1 in the runs that end without a TypeError
C1_CompleteUnlessThrown ==
    (pc = "done" /\ Len(Src) = Len(Tgt) /\ Src # Tgt /\ Reachable(Tgt))
        => ShortestPaths \subseteq Range(allPaths)

----------------------------------------------------------------------------
(* C2 - C6 *)

C3_PathSoundness ==
    pc = "done" =>
        \A n \in 1..Len(allPaths) :
            LET q == allPaths[n]
            IN  /\ Len(q) >= 1
                /\ q[1] = Src
                /\ q[Len(q)] = Tgt
                /\ \A i \in 2..Len(q) : q[i] \in Dictionary
                /\ \A i \in 1..(Len(q) - 1) : OneLetterApart(q[i], q[i + 1])

\* A run that returned two different paths of at least three words
C3_Witness ==
    /\ pc = "done"
    /\ Len(allPaths) = 2
    /\ allPaths[1] # allPaths[2]
    /\ Len(allPaths[1]) >= 3

\* C4 (no cycle): no path of the computed list holds the same word twice.
C4_NoRepeatedWord ==
    pc = "done" =>
        \A n \in 1..Len(allPaths) :
            \A i, j \in 1..Len(allPaths[n]) :
                allPaths[n][i] = allPaths[n][j] => i = j

\* A run that returned a path although two words discovered on one level, and
\* expanded on the next, are one letter apart (an edge the parent map must
\* not follow)
C4_Witness ==
    /\ pc = "done"
    /\ Len(allPaths) >= 1
    /\ \E i \in 1..(Len(frames) - 1) :
           \E u, v \in Range(frames[i].nextFrontier) : OneLetterApart(u, v)

\* The code units of a path's words, in order
Concatenation(path) == join(path, <<>>)

RECURSIVE LexLess(_, _)
\* x comes strictly before y, code unit by code unit
LexLess(x, y) ==
    IF y = <<>> THEN FALSE
    ELSE IF x = <<>> THEN TRUE
    ELSE IF Head(x) # Head(y) THEN Head(x) < Head(y)
    ELSE LexLess(Tail(x), Tail(y))

RECURSIVE Ascending(_)
\* The elements of a finite set of words as a sequence in ascending order
Ascending(S) ==
    IF S = {} THEN <<>>
    ELSE LET m == CHOOSE x \in S : \A y \in S \ {x} : LexLess(x, y)
         IN  <<m>> \o Ascending(S \ {m})

\* The word list with the same words in another order: ascending, no repeats
Reordered == Ascending({ toLowerCase(wordListText[i]) : i \in 1..Len(wordListText) })

\* How this run ended: the path list, or a thrown TypeError
Outcome == [res |-> allPaths, thrown |-> pc = "thrown"]

\* C5 (determinism): the run ends as the run on the same words in another
\* order ends, and a computed list is strictly ascending by the concatenation
\* of each path's words (so it holds no path twice).
C5_Determinism ==
    /\ Terminated => Outcome = RunAllPaths(beginWord, endWord, Reordered)
    /\ pc = "done" =>
           \A i, j \in 1..Len(allPaths) :
               i < j => LexLess(Concatenation(allPaths[i]), Concatenation(allPaths[j]))

\* A run on a word list that is not in ascending order, whose backtracking
\* met the paths in another order than the sorted one
C5_Witness ==
    /\ pc = "done"
    /\ Len(allPaths) >= 2
    /\ [i \in 1..Len(wordListText) |-> toLowerCase(wordListText[i])] # Reordered
    /\ dfs(Tgt, InitialPath(Tgt), {Tgt},
           [src |-> Src, rec |-> heap.records[finalParents], sets |-> heap.sets]).res
          # allPaths

\* C6 (layering): in every frame, a word discovered while a level was expanded
\* has all its parents in the frontier of that level, in that frame's parent
\* map and in every later one, and no parent of it was discovered on its own
\* level or a later one; every key of a frame's parent map was discovered on
\* that level or an earlier one.
C6_Layering ==
    \A i \in 1..Len(out) :
        /\ \A w \in Range(out[i].nextFrontier) :
               \A j \in i..Len(out) :
                   /\ ParentsOfIn(heap, out[j].parentsSnapshot, w) # {}
                   /\ ParentsOfIn(heap, out[j].parentsSnapshot, w)
                          \subseteq Range(out[i].frontier)
                   /\ \A k \in i..Len(out) :
                          ParentsOfIn(heap, out[j].parentsSnapshot, w)
                              \cap Range(out[k].nextFrontier) = {}
        /\ KeysOf(heap, out[i].parentsSnapshot)
              = UNION { Range(out[k].nextFrontier) : k \in 1..i }

\* A second-level word with two parents, next to a word of its own level
C6_Witness ==
    /\ Len(out) >= 2
    /\ \E w \in Range(out[2].nextFrontier) :
           /\ Cardinality(ParentsOfIn(heap, out[2].parentsSnapshot, w)) = 2
           /\ \E u, v \in Range(out[1].nextFrontier) : OneLetterApart(u, v)

----------------------------------------------------------------------------
(* C7 - C10 *)

\* C7 (length mismatch): when the begin word and the end word differ in
\* length, the render ends without an error, with no frame and no path.
C7_LengthMismatch ==
    (Terminated /\ Len(Src) # Len(Tgt))
        => (pc = "done" /\ frames = <<>> /\ allPaths = <<>>)

\* What remains of C7 in the runs that end without a TypeError
C7_MismatchUnlessThrown ==
    (FramesReturned /\ Len(Src) # Len(Tgt))
        => (frames = <<>> /\ allPaths = <<>>)

\* C8 (no path): when the end word has the begin word's length and no chain of
\* single-letter steps through the dictionary reaches it, the render ends with
\* a last frame whose found flag is false and with an empty path list.
C8_NoPath ==
    (Terminated /\ Len(Src) = Len(Tgt) /\ ~Reachable(Tgt))
        => /\ pc = "done"
           /\ Len(frames) >= 1
           /\ ~frames[Len(frames)].found
           /\ allPaths = <<>>

\* What remains of C8 in the runs that end without a TypeError
C8_NoPathUnlessThrown ==
    (pc = "done" /\ Len(Src) = Len(Tgt) /\ ~Reachable(Tgt))
        => /\ Len(frames) >= 1
           /\ ~frames[Len(frames)].found
           /\ allPaths = <<>>

\* The begin word has no neighbor in the neighbor index
BeginHasNoNeighbor == getNeighbors(Src, wordLen(beginWord), Buckets) = <<>>

\* C9 as stated: when the begin word has no neighbor (and the end word has its
\* length), the BFS returns an empty frame sequence.
C9_EmptyFrames ==
    (FramesReturned /\ Len(Src) = Len(Tgt) /\ BeginHasNoNeighbor)
        => frames = <<>>

\* C9 as amended: when the begin word has no neighbor (and the end word has
\* its length), the BFS returns exactly one frame: level 0, the begin word as
\* its frontier, nothing discovered, found = false.
C9_SingleFrame ==
    (FramesReturned /\ Len(Src) = Len(Tgt) /\ BeginHasNoNeighbor)
        => /\ Len(frames) = 1
           /\ frames[1].level = 0
           /\ frames[1].frontier = <<Src>>
           /\ frames[1].nextFrontier = <<>>
           /\ frames[1].visitedSnapshot = <<Src>>
           /\ ~frames[1].found

\* The BFS has returned for a begin word without neighbors although the word
\* list holds words of its length
C9_Witness ==
    /\ FramesReturned
    /\ Len(Src) = Len(Tgt)
    /\ BeginHasNoNeighbor
    /\ Cardinality(Dictionary) >= 2
    /\ Len(frames) = 1

\* Frame i as a holder of frame i sees it: its fields, and its parent map
\* read through the heap
FrameView(h, fs, i) == <<fs[i], ParentMap(h, fs[i].parentsSnapshot)>>

\* C10 (snapshot independence): a frame once appended stays in place and its
\* fields and parent map never change; the newest frame's parent map is the
\* live parent map as the level left it; and no frame shares its record or a
\* parent Set with the live parent map or with another frame.
C10_SnapshotIndependence ==
    /\ [][\A i \in 1..Len(out) :
              /\ i <= Len(out')
              /\ FrameView(heap', out', i) = FrameView(heap, out, i)]_vars
    /\ [](\A i \in 1..Len(out) :
              /\ (pc = "while" /\ i = Len(out)) =>
                     ParentMap(heap, out[i].parentsSnapshot) = ParentMap(heap, parents)
              /\ out[i].parentsSnapshot # parents
              /\ SetRefsOf(heap, out[i].parentsSnapshot) \cap SetRefsOf(heap, parents) = {}
              /\ \A j \in 1..Len(out) :
                     j # i => /\ out[j].parentsSnapshot # out[i].parentsSnapshot
                              /\ SetRefsOf(heap, out[j].parentsSnapshot)
                                     \cap SetRefsOf(heap, out[i].parentsSnapshot) = {})

\* Two frames later, the live parent map holds words that the first frame's
\* parent map does not
C10_Witness ==
    /\ Len(out) >= 3
    /\ KeysOf(heap, out[1].parentsSnapshot) # {}
    /\ KeysOf(heap, parents) \ KeysOf(heap, out[1].parentsSnapshot) # {}
    /\ KeysOf(heap, out[3].parentsSnapshot) \ KeysOf(heap, out[2].parentsSnapshot) # {}

----------------------------------------------------------------------------
(* C11 - C13 *)

\* C11 (all parents): once the final parent map is taken from the last frame,
\* its keys are exactly the words at distance 1 .. (number of frames) from the
\* begin word, and the parent set of a word at distance d is exactly the set
\* of the words at distance d - 1 that are one letter apart from it.
C11_AllParents ==
    (finalParents # 0 /\ Len(frames) >= 1)
        => /\ KeysOf(heap, finalParents)
                 = UNION { Layers[k] : k \in { k \in 2..Len(Layers) : k <= Len(frames) + 1 } }
           /\ \A w \in KeysOf(heap, finalParents) :
                  \E k \in 2..Len(Layers) :
                      /\ w \in Layers[k]
                      /\ ParentsOfIn(heap, finalParents, w)
                             = { u \in Layers[k - 1] : OneLetterApart(u, w) }

\* The final parent map gives a word at distance 2 two parents, and two words
\* at distance 1 are one letter apart without being each other's parent
C11_Witness ==
    /\ finalParents # 0
    /\ Len(frames) >= 2
    /\ \E w \in Range(frames[2].nextFrontier) :
           Cardinality(ParentsOfIn(heap, finalParents, w)) = 2
    /\ \E u, v \in Range(frames[1].nextFrontier) : OneLetterApart(u, v)

\* The words of the begin word's length that the model can ask neighbors of
QueryWords ==
    { w \in { toLowerCase(x) : x \in Pool \cup BeginWords \cup EndWords } :
          Len(w) = wordLen(beginWord) }

\* C12 (neighbor query): for every word W of the begin word's length,
\* getNeighbors(W) holds no word twice and holds exactly the words of the
\* length-filtered dictionary and the begin word that are one letter apart
\* from W (so never W itself, never a word of another length).
C12_Neighbors ==
    \A w \in QueryWords :
        LET res == getNeighbors(w, wordLen(beginWord), Buckets)
        IN  /\ \A i, j \in 1..Len(res) : res[i] = res[j] => i = j
            /\ Range(res) = { v \in Dictionary \cup {Src} : OneLetterApart(v, w) }

\* The begin word is in the word list, next to a word of another length and to
\* a word one letter apart from it, and the BFS has asked for its neighbors
C12_Witness ==
    /\ Len(out) >= 1
    /\ Src \in { toLowerCase(wordListText[i]) : i \in 1..Len(wordListText) }
    /\ \E i \in 1..Len(wordListText) : Len(wordListText[i]) # Len(beginWord)
    /\ out[1].nextFrontier # <<>>

\* C13 (stop at first discovery): a frame's found flag is true exactly when the
\* end word is in its nextFrontier; a frame with found = true is the last one,
\* and the loop appends no frame after it; frame i (0-based) has level i, and
\* the frontier of each later frame is the nextFrontier of the frame before.
C13_StopAtFirstDiscovery ==
    /\ [](\A i \in 1..Len(out) :
              /\ out[i].found <=> Has(out[i].nextFrontier, Tgt)
              /\ out[i].found => i = Len(out)
              /\ out[i].level = i - 1
              /\ i < Len(out) => out[i + 1].frontier = out[i].nextFrontier)
    /\ [][(\E i \in 1..Len(out) : out[i].found) => out' = out]_vars

\* The end word was discovered by the third frame, and the loop has returned
C13_Witness ==
    /\ pc = "finalParents"
    /\ Len(frames) = 3
    /\ frames[3].found
    /\ ~frames[1].found
    /\ ~frames[2].found

----------------------------------------------------------------------------
(* Playback: the component's state, its event handlers, renders and effects *)

\* examples[0], examples[1], examples[4] of examples.ts
Examples ==
    { [begin |-> <<104,105,116>>, end |-> <<99,111,103>>,
       words |-> <<<<104,111,116>>, <<100,111,116>>, <<100,111,103>>, <<108,111,116>>, <<108,111,103>>, <<99,111,103>>>>],
      [begin |-> <<99,97,116>>, end |-> <<100,111,103>>,
       words |-> <<<<99,97,116>>, <<99,111,116>>, <<99,111,103>>, <<100,111,103>>>>],
      [begin |-> <<100,111,103>>, end |-> <<99,97,116>>,
       words |-> <<<<100,111,103>>, <<99,111,116>>, <<99,97,116>>>>] }

\* What the user may type: "hit", "hi"; "cog", "co", "dog"; the default word
\* list, and the default word list with the "t" of "hot" deleted
TypedBeginWords == { <<104,105,116>>, <<104,105>> }
TypedEndWords == { <<99,111,103>>, <<99,111>>, <<100,111,103>> }
TypedWordLists ==
    { <<<<104,111,116>>, <<100,111,116>>, <<100,111,103>>, <<108,111,116>>, <<108,111,103>>, <<99,111,103>>>>,
      <<<<104,111>>, <<100,111,116>>, <<100,111,103>>, <<108,111,116>>, <<108,111,103>>, <<99,111,103>>>> }

Min(x, y) == IF x < y THEN x ELSE y
Max(x, y) == IF x > y THEN x ELSE y

\* e.target.value.trim().toLowerCase(): the typed words hold no white space
Normalized(typed) == toLowerCase(typed)

RECURSIVE ColumnsLoop(_, _, _, _, _)
\* for (let i = 0; i <= step; i++): reading nextFrontier of frames[i] throws a
\* TypeError when frames[i] is undefined
ColumnsLoop(cols, fs, i, st, beginW) ==
    IF i > st THEN [cols |-> cols, thrown |-> FALSE]
    ELSE IF i + 1 > Len(fs) THEN [cols |-> cols, thrown |-> TRUE]
    ELSE LET next == SelectSeq(fs[i + 1].nextFrontier, LAMBDA x : Len(x) = Len(beginW))
         IN  ColumnsLoop(IF Len(next) # 0 THEN Append(cols, next) ELSE cols,
                         fs, i + 1, st, beginW)

\* The columns memo (lines 215-227)
ColumnsOf(fs, st, beginW) ==
    IF Len(fs) = 0 THEN [cols |-> <<>>, thrown |-> FALSE]
    ELSE ColumnsLoop(<<<<toLowerCase(beginW)>>>>, fs, 0, st, beginW)

UIInit ==
    /\ beginWord = <<104,105,116>>
    /\ endWord = <<99,111,103>>
    /\ wordListText = <<<<104,111,116>>, <<100,111,116>>, <<100,111,103>>,
                        <<108,111,116>>, <<108,111,103>>, <<99,111,103>>>>
    /\ pc = "render"
    /\ visited = <<>>
    /\ parents = 0
    /\ frontier = <<>>
    /\ level = 0
    /\ found = FALSE
    /\ out = <<>>
    /\ heap = EmptyHeap
    /\ frames = <<>>
    /\ finalParents = 0
    /\ allPaths = <<>>
    /\ step = 0
    /\ isPlaying = FALSE
    /\ timerRef = <<>>
    /\ resetDeps = <<>>
    /\ timerDeps = <<>>
    /\ columns = <<>>

\* What no handler, render or effect of the playback touches
engine == <<visited, parents, frontier, level, found, out, heap, finalParents>>

\* A state update re-renders unless it leaves the state as it was
AfterUpdate(changed) == IF changed THEN "render" ELSE "idle"

\* onChange of the begin word input (line 331)
EditBeginWord ==
    /\ pc = "idle"
    /\ \E typed \in TypedBeginWords :
           /\ beginWord' = Normalized(typed)
           /\ pc' = AfterUpdate(Normalized(typed) # beginWord)
    /\ UNCHANGED <<endWord, wordListText, frames, allPaths, step, isPlaying, timerRef,
                   resetDeps, timerDeps, columns, engine>>

\* onChange of the end word input (line 339)
EditEndWord ==
    /\ pc = "idle"
    /\ \E typed \in TypedEndWords :
           /\ endWord' = Normalized(typed)
           /\ pc' = AfterUpdate(Normalized(typed) # endWord)
    /\ UNCHANGED <<beginWord, wordListText, frames, allPaths, step, isPlaying, timerRef,
                   resetDeps, timerDeps, columns, engine>>

\* onChange of the word list textarea (line 348)
EditWordList ==
    /\ pc = "idle"
    /\ \E typed \in TypedWordLists :
           /\ wordListText' = typed
           /\ pc' = AfterUpdate(typed # wordListText)
    /\ UNCHANGED <<beginWord, endWord, frames, allPaths, step, isPlaying, timerRef,
                   resetDeps, timerDeps, columns, engine>>

\* loadExample (lines 15-21)
LoadExample ==
    /\ pc = "idle"
    /\ \E example \in Examples :
           /\ beginWord' = example.begin
           /\ endWord' = example.end
           /\ wordListText' = example.words
           /\ isPlaying' = FALSE
           /\ step' = 0
           /\ pc' = AfterUpdate(<<example.begin, example.end, example.words, FALSE, 0>>
                                    # <<beginWord, endWord, wordListText, isPlaying, step>>)
    /\ UNCHANGED <<frames, allPaths, timerRef, resetDeps, timerDeps, columns, engine>>

\* The Play / Pause button (lines 359-360)
TogglePlay ==
    /\ pc = "idle"
    /\ Len(frames) # 0
    /\ isPlaying' = ~isPlaying
    /\ pc' = "render"
    /\ UNCHANGED <<beginWord, endWord, wordListText, frames, allPaths, step, timerRef,
                   resetDeps, timerDeps, columns, engine>>

\* The step-back button (lines 366-367)
StepBack ==
    /\ pc = "idle"
    /\ ~(Len(frames) = 0 \/ step = 0)
    /\ step' = Max(0, step - 1)
    /\ pc' = AfterUpdate(step' # step)
    /\ UNCHANGED <<beginWord, endWord, wordListText, frames, allPaths, isPlaying, timerRef,
                   resetDeps, timerDeps, columns, engine>>

\* The step-forward button (lines 373-374)
StepForward ==
    /\ pc = "idle"
    /\ ~(Len(frames) = 0 \/ step >= Len(frames) - 1)
    /\ step' = Min(Len(frames) - 1, step + 1)
    /\ pc' = AfterUpdate(step' # step)
    /\ UNCHANGED <<beginWord, endWord, wordListText, frames, allPaths, isPlaying, timerRef,
                   resetDeps, timerDeps, columns, engine>>

\* reset (lines 284-287, 378)
Reset ==
    /\ pc = "idle"
    /\ Len(frames) # 0
    /\ isPlaying' = FALSE
    /\ step' = 0
    /\ pc' = AfterUpdate(isPlaying \/ step # 0)
    /\ UNCHANGED <<beginWord, endWord, wordListText, frames, allPaths, timerRef,
                   resetDeps, timerDeps, columns, engine>>

\* The timeout of line 206 fires: setStep((s) => Math.min(s + 1, frames.length - 1)),
\* with the frames.length the effect closed over
TimerTick ==
    /\ pc = "idle"
    /\ timerRef # <<>>
    /\ step' = Min(step + 1, timerRef[1] - 1)
    /\ timerRef' = <<>>
    /\ pc' = AfterUpdate(step' # step)
    /\ UNCHANGED <<beginWord, endWord, wordListText, frames, allPaths, isPlaying,
                   resetDeps, timerDeps, columns, engine>>

\* One render: the memos of frames, allPaths and columns are recomputed from
\* the state; a TypeError in one of them leaves the component unrendered
Render ==
    /\ pc = "render"
    /\ LET fr   == RunFrames(beginWord, endWord, wordListText)
           ap   == RunAllPaths(beginWord, endWord, wordListText)
           cols == ColumnsOf(fr.out, step, beginWord)
       IN  /\ frames' = fr.out
           /\ allPaths' = ap.res
           /\ columns' = cols.cols
           /\ pc' = IF fr.thrown \/ ap.thrown \/ cols.thrown THEN "thrown" ELSE "effects"
    /\ UNCHANGED <<beginWord, endWord, wordListText, step, isPlaying, timerRef,
                   resetDeps, timerDeps, engine>>

\* The effects of a committed render, in order (lines 188-192, 194-210); React
\* runs them before it handles the next event or renders again
Effects ==
    /\ pc = "effects"
    /\ LET inputsChanged == resetDeps # <<beginWord, endWord, wordListText>>
           timerChanged  == timerDeps # <<isPlaying, step, Len(frames)>>
           atEnd         == step >= Len(frames) - 1
           newStep       == IF inputsChanged THEN 0 ELSE step
           newPlaying    == IF inputsChanged \/ (timerChanged /\ isPlaying /\ atEnd)
                            THEN FALSE ELSE isPlaying
       IN  /\ resetDeps' = <<beginWord, endWord, wordListText>>
           /\ timerDeps' = <<isPlaying, step, Len(frames)>>
           /\ timerRef' = IF ~timerChanged THEN timerRef
                          ELSE IF isPlaying /\ ~atEnd THEN <<Len(frames)>>
                          ELSE <<>>
           /\ step' = newStep
           /\ isPlaying' = newPlaying
           /\ pc' = AfterUpdate(newStep # step \/ newPlaying # isPlaying)
    /\ UNCHANGED <<beginWord, endWord, wordListText, frames, allPaths, columns, engine>>

UINext ==
    \/ EditBeginWord
    \/ EditEndWord
    \/ EditWordList
    \/ LoadExample
    \/ TogglePlay
    \/ StepBack
    \/ StepForward
    \/ Reset
    \/ TimerTick
    \/ Render
    \/ Effects

SpecUI == UIInit /\ [][UINext]_vars

----------------------------------------------------------------------------
(* C14 *)

\* C14 (step index validity): whenever a render has derived the layout from a
\* non-empty frame sequence, it did so without an error and with
\* 0 <= step <= frames.length - 1.
C14_StepInRange ==
    (pc \in {"effects", "idle", "thrown"} /\ Len(frames) # 0)
        => (pc # "thrown" /\ 0 <= step /\ step <= Len(frames) - 1)

\* What remains of C14: between events, after the effects have run, the step
\* is in range
C14_StepInRangeWhenIdle ==
    (pc = "idle" /\ Len(frames) # 0) => (0 <= step /\ step <= Len(frames) - 1)

====
